---- MODULE Spec2Model ----
(***************************************************************************)
(* State-machine model of the USB detection and state-tracking engine      *)
(* (src/src/usb-manager-robust.js, class RobustUSBManager) together with   *)
(* its environment: the two optional native libraries, the external        *)
(* enumeration command, the Node timers and the physical devices.          *)
(***************************************************************************)
EXTENDS Integers, Sequences, FiniteSets, Bags, TLC

VARIABLES
  phase,              \* "unloaded" | "loadfailed" | "ready" : loading of the module file
  platform,           \* process.platform
  usbInstalled,       \* environment: require('usb') succeeds
  detInstalled,       \* environment: require('node-usb-detection') succeeds
  usbLib,             \* this.usbLib is non-null
  usbDetection,       \* this.usbDetection is non-null
  monitoringMethod,   \* this.monitoringMethod ("null" before loadUSBLibraries)
  isMonitoring,       \* this.isMonitoring
  pollingInterval,    \* this.pollingInterval: "null" or the kind of the timer it refers to
  intervals,          \* Node: bag of active setInterval timers, by kind ("usb" | "system")
  nativeListeners,    \* number of ('add','remove') listener pairs registered on usbDetection
  nativeActive,       \* the native detector is started and delivers callbacks
  attached,           \* environment: physical devices currently plugged in
  devices,            \* this.devices: insertion-ordered Map, a sequence of records with unique id
  connectionHistory,  \* this.connectionHistory, newest first
  appended,           \* number of addToHistory calls so far (gives each entry its identity)
  events,             \* events emitted on the EventEmitter, oldest first
  removalTimers,      \* Node: bag of pending setTimeout(5000) removals, by device id
  inflight,           \* bag of external commands / native find() calls whose callback is pending
  enrich,             \* bag of descriptor enrichments (enrichUSBDeviceInfo) awaiting I/O
  now,                \* wall clock (Date.now())
  refreshLog,         \* observer: outcomes of the refreshDeviceList calls made back to back
  result              \* observer: value returned by the last getHistory call

vars == <<phase, platform, usbInstalled, detInstalled, usbLib, usbDetection,
          monitoringMethod, isMonitoring, pollingInterval, intervals,
          nativeListeners, nativeActive, attached, devices, connectionHistory,
          appended, events, removalTimers, inflight, enrich, now, refreshLog, result>>

envVars == <<platform, usbInstalled, detInstalled>>
libVars == <<phase, usbLib, usbDetection, monitoringMethod>>
monVars == <<isMonitoring, pollingInterval, intervals, nativeListeners, nativeActive>>
coreVars == <<devices, connectionHistory, appended, events, removalTimers>>
obsVars == <<refreshLog, result>>

(***************************************************************************)
(* Bounds of the exploration.                                              *)
(***************************************************************************)
NumPhys == 2        \* physical devices that can be plugged in
MaxHist == 3        \* environment steps stop once this many transitions were logged
MaxTime == 1        \* the clock advances up to this value
MaxInflight == 1    \* pending poll command callbacks
MaxEnrich == 2      \* pending descriptor enrichments
MaxRefresh == 1     \* pending refresh callbacks
MaxStarts == 2      \* listener pairs registered on the native detector
MaxAppends == 3     \* addToHistory calls explored from a nearly full history
MaxOverlap == 2     \* poll commands pending at once where timer firings may overlap

(***************************************************************************)
(* Program constants.                                                      *)
(***************************************************************************)
HistoryCap == 1000
DefaultLimit == 50

Phys == 1..NumPhys
Platforms == {"linux", "darwin", "win32", "freebsd"}

Min(a, b) == IF a < b THEN a ELSE b
Max(a, b) == IF a > b THEN a ELSE b

\* Descriptor fields of the physical devices.  Devices 1 and 2 are two units
\* of the same model without a serial number; each device has its own address
\* on bus 1.
VendorOf(p) == 1
ProductOf(p) == (p + 1) \div 2
BusOf(p) == 1
AddressOf(p) == p

RECURSIVE SortedPhys(_)
SortedPhys(S) ==
  IF S = {} THEN <<>>
  ELSE LET m == CHOOSE x \in S : \A y \in S : x <= y
       IN <<m>> \o SortedPhys(S \ {m})

(***************************************************************************)
(* The Map this.devices.                                                   *)
(***************************************************************************)
MapIds(m) == {m[i].id : i \in 1..Len(m)}
MapHas(m, id) == id \in MapIds(m)
MapGet(m, id) == m[CHOOSE i \in 1..Len(m) : m[i].id = id]
MapSet(m, rec) ==
  IF MapHas(m, rec.id)
  THEN [i \in 1..Len(m) |-> IF m[i].id = rec.id THEN rec ELSE m[i]]
  ELSE Append(m, rec)
MapDelete(m, id) == SelectSeq(m, LAMBDA r : r.id # id)

(***************************************************************************)
(* Device identity.  An id is a 4-tuple <<scheme, x, y, z>>.               *)
(***************************************************************************)
\* generateDeviceId ignoring the serial number
GenerateDeviceIdNoSerial(device) ==
  <<"gen",
    IF "vendorId" \in DOMAIN device THEN device.vendorId ELSE 0,
    IF "productId" \in DOMAIN device THEN device.productId ELSE 0,
    "no-serial">>

\* `${vendorId || 0}-${productId || 0}-${serialNumber || 'no-serial'}`: a
\* field that is absent or falsy (0, '') is replaced by its default.  The
\* tuple <<"gen", v, p, s>> stands for the string v-p-s, v and p in decimal.
GenerateDeviceId(device) ==
  <<"gen",
    IF "vendorId" \in DOMAIN device /\ device.vendorId # 0 THEN device.vendorId ELSE 0,
    IF "productId" \in DOMAIN device /\ device.productId # 0 THEN device.productId ELSE 0,
    IF "serialNumber" \in DOMAIN device /\ device.serialNumber # ""
    THEN device.serialNumber ELSE "no-serial">>

\* [idVendor hex, idProduct hex, busNumber, deviceAddress].join('-');
\* the vendor and product ids are folded into one number.
GenerateDeviceIdFromUSB(p) ==
  <<"usb", VendorOf(p) * 65536 + ProductOf(p), BusOf(p), AddressOf(p)>>

\* The device object handed to the 'add' / 'remove' / find() callbacks of the
\* native detector: it carries no id and, for the devices modelled, no
\* serial number.
NativeDevice(p) ==
  [vendorId |-> VendorOf(p), productId |-> ProductOf(p)]

\* Canonical record.  disconnectedAt = -1 stands for null / absent.
EnrichDeviceInfo(device, status, t) ==
  [id |-> GenerateDeviceId(device), status |-> status,
   disconnectedAt |-> IF status = "disconnected" THEN t ELSE -1, lastSeen |-> t]

\* enrichUSBDeviceInfo: openFails tells that usbDevice.open() throws (the
\* catch branch); t is the time at which the enrichment started.
EnrichUSBDeviceInfo(p, status, openFails, t) ==
  IF openFails
  THEN [id |-> GenerateDeviceIdFromUSB(p), status |-> "error",
        disconnectedAt |-> -1, lastSeen |-> t]
  ELSE [id |-> GenerateDeviceIdFromUSB(p), status |-> status,
        disconnectedAt |-> IF status = "disconnected" THEN t ELSE -1, lastSeen |-> t]

(***************************************************************************)
(* Command-poll enumerators.  The command output is the list of attached   *)
(* devices in bus order; idx is the 0-based position of a device in it.    *)
(***************************************************************************)
ParsedDevice(id, t) ==
  [id |-> id, status |-> "connected", disconnectedAt |-> -1, lastSeen |-> t]

\* one line "Bus <bus> Device <addr>: ID <vendor>:<product> <description>" per device
ParseLinuxUSBOutput(out, t) ==
  LET l == SortedPhys(out)
  IN [i \in 1..Len(l) |->
        ParsedDevice(<<"linux", BusOf(l[i]), AddressOf(l[i]),
                       VendorOf(l[i]) * 65536 + ProductOf(l[i])>>, t)]

\* the devices are the _items of one 'USB Bus' node; busNumber is always 0
ParseMacUSBOutput(out, t) ==
  LET l == SortedPhys(out)
  IN [i \in 1..Len(l) |-> ParsedDevice(<<"mac", 0, i - 1, ProductOf(l[i])>>, t)]

\* one csv row per device; the id is built from the row index and Date.now()
ParseWindowsUSBOutput(out, t) ==
  LET l == SortedPhys(out)
  IN [i \in 1..Len(l) |-> ParsedDevice(<<"windows", i - 1, t, 0>>, t)]

ParseSystemUSBOutput(out, plat, t) ==
  CASE plat = "darwin" -> ParseMacUSBOutput(out, t)
    [] plat = "linux" -> ParseLinuxUSBOutput(out, t)
    [] plat = "win32" -> ParseWindowsUSBOutput(out, t)
    [] OTHER -> <<>>

\* Value getSystemUSBDevices() resolves to for a command whose callback
\* reports (ok, out) at time t.
GetSystemUSBDevices(plat, ok, out, t) ==
  IF plat \notin {"darwin", "linux", "win32"} THEN <<>>
  ELSE IF ~ok THEN <<>>
  ELSE ParseSystemUSBOutput(out, plat, t)

(***************************************************************************)
(* Registry, history and event bus.  The handlers are functions on the     *)
(* core state c = [dev, hist, n, ev, tm].                                  *)
(***************************************************************************)
Core == [dev |-> devices, hist |-> connectionHistory, n |-> appended,
         ev |-> events, tm |-> removalTimers]

\* addToHistory without the truncation of lines 667-669
AddToHistoryUncapped(c, device, eventType) ==
  LET historyEntry == [seq |-> c.n + 1, deviceId |-> device.id,
                       device |-> device, eventType |-> eventType]
  IN [c EXCEPT !.hist = <<historyEntry>> \o c.hist, !.n = c.n + 1]

\* addToHistory storing the record itself instead of `{ ...device }`: the
\* newest earlier entry of the same id holds the same object and shows its
\* present fields
AddToHistoryByReference(c, device, eventType) ==
  LET historyEntry == [seq |-> c.n + 1, deviceId |-> device.id,
                       device |-> device, eventType |-> eventType]
      same == {i \in 1..Len(c.hist) : c.hist[i].deviceId = device.id}
      aliased == [i \in 1..Len(c.hist) |->
                    IF i \in same /\ \A j \in same : i <= j
                    THEN [c.hist[i] EXCEPT !.device = device]
                    ELSE c.hist[i]]
      h == <<historyEntry>> \o aliased
  IN [c EXCEPT !.hist = IF Len(h) > HistoryCap THEN SubSeq(h, 1, HistoryCap) ELSE h,
               !.n = c.n + 1]

AddToHistory(c, device, eventType) ==
  LET historyEntry == [seq |-> c.n + 1, deviceId |-> device.id,
                       device |-> device, eventType |-> eventType]
      h == <<historyEntry>> \o c.hist
  IN [c EXCEPT !.hist = IF Len(h) > HistoryCap THEN SubSeq(h, 1, HistoryCap) ELSE h,
               !.n = c.n + 1]

\* this.emit placed before the transition is logged
EmitUnlogged(c, name, device) ==
  [c EXCEPT !.ev = Append(@, [type |-> name, device |-> device, n |-> c.n - 1])]

\* this.emit(name, device): the listeners run synchronously; n is the number
\* of history entries appended so far, as a listener observes it
Emit(c, name, device) ==
  [c EXCEPT !.ev = Append(@, [type |-> name, device |-> device, n |-> c.n])]

HandleDeviceConnect(c, deviceInfo, t) ==
  LET info == IF "id" \notin DOMAIN deviceInfo
              THEN EnrichDeviceInfo(deviceInfo, "connected", t)
              ELSE deviceInfo
      c1 == [c EXCEPT !.dev = MapSet(@, info)]
      c2 == AddToHistory(c1, info, "connect")
  IN Emit(c2, "deviceConnected", info)

\* handleDeviceDisconnect deleting the record at once instead of after 5 s
HandleDeviceDisconnectNoGrace(c, deviceInfo, t) ==
  LET hasId == "id" \in DOMAIN deviceInfo
      deviceId == IF hasId THEN deviceInfo.id ELSE GenerateDeviceId(deviceInfo)
      found == MapHas(c.dev, deviceId)
      existingDevice == IF found THEN MapGet(c.dev, deviceId) ELSE deviceInfo
      flipped == [existingDevice EXCEPT !.status = "disconnected", !.disconnectedAt = t]
      c1 == [c EXCEPT !.dev = MapDelete(@, deviceId)]
      c2 == AddToHistory(c1, flipped, "disconnect")
  IN IF found \/ hasId THEN Emit(c2, "deviceDisconnected", flipped) ELSE c

HandleDeviceDisconnect(c, deviceInfo, t) ==
  LET hasId == "id" \in DOMAIN deviceInfo
      deviceId == IF hasId THEN deviceInfo.id ELSE GenerateDeviceId(deviceInfo)
      found == MapHas(c.dev, deviceId)
      exists == found \/ hasId
      existingDevice == IF found THEN MapGet(c.dev, deviceId) ELSE deviceInfo
      flipped == [existingDevice EXCEPT !.status = "disconnected", !.disconnectedAt = t]
      c1 == IF found THEN [c EXCEPT !.dev = MapSet(@, flipped)] ELSE c
      c2 == AddToHistory(c1, flipped, "disconnect")
      c3 == [c2 EXCEPT !.tm = @ (+) SetToBag({deviceId})]
  IN IF exists THEN Emit(c3, "deviceDisconnected", flipped) ELSE c

\* "Check for new devices": currentDevices.forEach in list order
RECURSIVE ConnectNew(_, _, _, _)
ConnectNew(c, currentDevices, i, t) ==
  IF i > Len(currentDevices) THEN c
  ELSE LET device == currentDevices[i]
       IN ConnectNew(IF ~MapHas(c.dev, device.id)
                     THEN HandleDeviceConnect(c, device, t) ELSE c,
                     currentDevices, i + 1, t)

\* "Check for removed devices": this.devices.forEach in insertion order
RECURSIVE DisconnectGone(_, _, _, _)
DisconnectGone(c, currentDeviceIds, i, t) ==
  IF i > Len(c.dev) THEN c
  ELSE LET device == c.dev[i]
       IN DisconnectGone(IF device.id \notin currentDeviceIds /\ device.status = "connected"
                         THEN HandleDeviceDisconnect(c, device, t) ELSE c,
                         currentDeviceIds, i + 1, t)

SeqIds(s) == {s[i].id : i \in 1..Len(s)}

\* pollSystemUSBDevices without its "Check for removed devices" loop
ApplySystemPollAddOnly(c, currentDevices, t) ==
  ConnectNew(c, currentDevices, 1, t)

\* body of pollSystemUSBDevices after the await
ApplySystemPoll(c, currentDevices, t) ==
  DisconnectGone(ConnectNew(c, currentDevices, 1, t), SeqIds(currentDevices), 1, t)

\* getHistory(limit): Array.prototype.slice(0, limit)
Slice0(s, end) ==
  LET k == IF end < 0 THEN Max(Len(s) + end, 0) ELSE Min(end, Len(s))
  IN SubSeq(s, 1, k)
\* getHistory taking the oldest entries
GetHistoryOldest(hist, limit) ==
  SubSeq(hist, Len(hist) - Len(Slice0(hist, limit)) + 1, Len(hist))

GetHistory(hist, limit) == Slice0(hist, limit)

(***************************************************************************)
(* Module load and construction.                                           *)
(***************************************************************************)
\* line 7: const { usb } = require('usb') is evaluated, unguarded, when the
\* module file is loaded
ModuleLoads(usbOk) == usbOk

\* loadUSBLibraries: the two guarded requires and the terminal fallback
LoadUSBLibraries(detOk, usbOk) ==
  IF detOk THEN "node-usb-detection"
  ELSE IF usbOk THEN "usb-polling"
  ELSE "system-polling"

\* fields set by the constructor before loadUSBLibraries, and the environment
\* the process starts in: nothing plugged in, nothing pending
Constructed ==
  /\ isMonitoring = FALSE
  /\ pollingInterval = "null"
  /\ intervals = EmptyBag
  /\ nativeListeners = 0
  /\ nativeActive = FALSE
  /\ attached = {}
  /\ devices = <<>>
  /\ connectionHistory = <<>>
  /\ appended = 0
  /\ events = <<>>
  /\ removalTimers = EmptyBag
  /\ inflight = EmptyBag
  /\ enrich = EmptyBag
  /\ now = 0
  /\ refreshLog = <<>>
  /\ result = [called |-> FALSE, given |-> FALSE, limit |-> 0, value |-> <<>>]

\* The process before the module file is loaded.
Init ==
  /\ phase = "unloaded"
  /\ platform = "linux"
  /\ usbInstalled \in BOOLEAN
  /\ detInstalled \in BOOLEAN
  /\ usbLib = FALSE
  /\ usbDetection = FALSE
  /\ monitoringMethod = "null"
  /\ Constructed

\* State after `new RobustUSBManager()` when neither guarded require of
\* loadUSBLibraries succeeds: the command-poll strategy.
InitCmd ==
  /\ phase = "ready"
  /\ platform \in Platforms
  /\ usbInstalled = FALSE
  /\ detInstalled = FALSE
  /\ usbLib = FALSE
  /\ usbDetection = FALSE
  /\ monitoringMethod = LoadUSBLibraries(FALSE, FALSE)
  /\ Constructed

SetCore(c) ==
  /\ devices' = c.dev
  /\ connectionHistory' = c.hist
  /\ appended' = c.n
  /\ events' = c.ev
  /\ removalTimers' = c.tm

LoadModule ==
  /\ phase = "unloaded"
  /\ IF ModuleLoads(usbInstalled)
     THEN /\ phase' = "ready"
          /\ usbDetection' = detInstalled
          /\ usbLib' = usbInstalled
          /\ monitoringMethod' = LoadUSBLibraries(detInstalled, usbInstalled)
     ELSE /\ phase' = "loadfailed"
          /\ UNCHANGED <<usbDetection, usbLib, monitoringMethod>>
  /\ UNCHANGED <<envVars, monVars, attached, coreVars, inflight, enrich, now, obsVars>>

(***************************************************************************)
(* Monitoring control.                                                     *)
(***************************************************************************)
\* startSystemPolling / startUSBPolling: setInterval and store the handle
StartPolling(kind) ==
  /\ intervals' = intervals (+) SetToBag({kind})
  /\ pollingInterval' = kind

\* The substrate startMonitoring() ends up starting: the one selected by
\* monitoringMethod, or the system-command poll timer of the catch branch when
\* starting the selected one throws.  startThrows: usbDetection.startMonitoring()
\* throws.
StartedSubstrate(method, det, usb, startThrows) ==
  CASE method = "node-usb-detection" ->
         IF det /\ ~startThrows THEN "native" ELSE "system"
    [] method = "usb-polling" -> IF usb THEN "usb" ELSE "system"
    [] OTHER -> "system"

\* startMonitoring without the early return of lines 78-81
StartMonitoringUnguarded(startThrows) ==
  LET s == StartedSubstrate(monitoringMethod, usbDetection, usbLib, startThrows)
  IN /\ nativeListeners' =
          IF monitoringMethod = "node-usb-detection" /\ usbDetection
          THEN nativeListeners + 1 ELSE nativeListeners
     /\ IF s = "native"
        THEN /\ nativeActive' = TRUE
             /\ UNCHANGED <<intervals, pollingInterval>>
        ELSE /\ StartPolling(s)
             /\ UNCHANGED nativeActive
     /\ isMonitoring' = TRUE

StartMonitoringBody(startThrows) ==
  IF isMonitoring
  THEN UNCHANGED monVars
  ELSE LET s == StartedSubstrate(monitoringMethod, usbDetection, usbLib, startThrows)
       IN /\ nativeListeners' =
               IF monitoringMethod = "node-usb-detection" /\ usbDetection
               THEN nativeListeners + 1 ELSE nativeListeners
          /\ IF s = "native"
             THEN /\ nativeActive' = TRUE
                  /\ UNCHANGED <<intervals, pollingInterval>>
             ELSE /\ StartPolling(s)
                  /\ UNCHANGED nativeActive
          /\ isMonitoring' = TRUE

\* startMonitoring()
StartMonitoring(startThrows) ==
  /\ phase = "ready"
  /\ (~isMonitoring /\ monitoringMethod = "node-usb-detection")
        => nativeListeners < MaxStarts
  /\ startThrows => (~isMonitoring /\ monitoringMethod = "node-usb-detection")
  /\ StartMonitoringBody(startThrows)
  /\ UNCHANGED <<envVars, libVars, attached, coreVars, inflight, enrich, now, obsVars>>

\* stopMonitoring without the early return, flipping the flag instead of
\* clearing it
StopMonitoringToggles(stopThrows) ==
  /\ nativeActive' = FALSE
  /\ IF pollingInterval # "null"
     THEN /\ intervals' = intervals (-) SetToBag({pollingInterval})
          /\ pollingInterval' = "null"
     ELSE UNCHANGED <<intervals, pollingInterval>>
  /\ isMonitoring' = ~isMonitoring
  /\ UNCHANGED nativeListeners

\* stopThrows: usbDetection.stopMonitoring() throws
StopMonitoringBody(stopThrows) ==
  IF ~isMonitoring
  THEN UNCHANGED monVars
  ELSE IF usbDetection /\ monitoringMethod = "node-usb-detection" /\ stopThrows
  THEN UNCHANGED monVars
  ELSE /\ nativeActive' = IF usbDetection /\ monitoringMethod = "node-usb-detection"
                          THEN FALSE ELSE nativeActive
       /\ IF pollingInterval # "null"
          THEN /\ intervals' = intervals (-) SetToBag({pollingInterval})
               /\ pollingInterval' = "null"
          ELSE UNCHANGED <<intervals, pollingInterval>>
       /\ isMonitoring' = FALSE
       /\ UNCHANGED nativeListeners

\* stopMonitoring()
StopMonitoring(stopThrows) ==
  /\ phase = "ready"
  /\ stopThrows => (isMonitoring /\ usbDetection /\ monitoringMethod = "node-usb-detection")
  /\ StopMonitoringBody(stopThrows)
  /\ UNCHANGED <<envVars, libVars, attached, coreVars, inflight, enrich, now, obsVars>>

\* cleanup(): stopMonitoring(); this.devices.clear(); removeAllListeners()
Cleanup(stopThrows) ==
  /\ phase = "ready"
  /\ stopThrows => (isMonitoring /\ usbDetection /\ monitoringMethod = "node-usb-detection")
  /\ StopMonitoringBody(stopThrows)
  /\ devices' = <<>>
  /\ UNCHANGED <<envVars, libVars, attached, connectionHistory, appended, events,
                 removalTimers, inflight, enrich, now, obsVars>>

(***************************************************************************)
(* Environment: devices are plugged and unplugged.  While the native       *)
(* detector is started it calls every registered 'add' / 'remove' listener.*)
(***************************************************************************)
\* the k registered 'add' listeners, each calling handleDeviceConnect
RECURSIVE AddListeners(_, _, _, _)
AddListeners(k, c, device, t) ==
  IF k = 0 THEN c ELSE AddListeners(k - 1, HandleDeviceConnect(c, device, t), device, t)

\* the k registered 'remove' listeners, each calling handleDeviceDisconnect
RECURSIVE RemoveListeners(_, _, _, _)
RemoveListeners(k, c, device, t) ==
  IF k = 0 THEN c ELSE RemoveListeners(k - 1, HandleDeviceDisconnect(c, device, t), device, t)

NativeCallbacks == IF nativeActive THEN nativeListeners ELSE 0

Attach(p) ==
  /\ p \notin attached
  /\ appended < MaxHist
  /\ attached' = attached \cup {p}
  /\ SetCore(AddListeners(NativeCallbacks, Core, NativeDevice(p), now))
  /\ UNCHANGED <<envVars, libVars, monVars, inflight, enrich, now, obsVars>>

Detach(p) ==
  /\ p \in attached
  /\ appended < MaxHist
  /\ attached' = attached \ {p}
  /\ SetCore(RemoveListeners(NativeCallbacks, Core, NativeDevice(p), now))
  /\ UNCHANGED <<envVars, libVars, monVars, inflight, enrich, now, obsVars>>

Tick ==
  /\ now < MaxTime
  /\ now' = now + 1
  /\ UNCHANGED <<envVars, libVars, monVars, attached, coreVars, inflight, enrich, obsVars>>

\* a removal timer that also drops the id's history entries
RemovalTimerPurges(id) ==
  /\ BagIn(id, removalTimers)
  /\ removalTimers' = removalTimers (-) SetToBag({id})
  /\ devices' = MapDelete(devices, id)
  /\ connectionHistory' = SelectSeq(connectionHistory, LAMBDA e : e.deviceId # id)
  /\ UNCHANGED <<envVars, libVars, monVars, attached, appended,
                 events, inflight, enrich, now, obsVars>>

\* the setTimeout(5000) callback of handleDeviceDisconnect
RemovalTimerFire(id) ==
  /\ BagIn(id, removalTimers)
  /\ removalTimers' = removalTimers (-) SetToBag({id})
  /\ devices' = MapDelete(devices, id)
  /\ UNCHANGED <<envVars, libVars, monVars, attached, connectionHistory, appended,
                 events, inflight, enrich, now, obsVars>>

(***************************************************************************)
(* Poll cycles.                                                            *)
(***************************************************************************)
SupportedPlatform == platform \in {"darwin", "linux", "win32"}

\* A command (or native find) whose callback is pending: what the callback
\* will report.  A failed command reports no output.
Pending(kind, ok) == [kind |-> kind, ok |-> ok, out |-> IF ok THEN attached ELSE {}]

InFlight(kinds) ==
  LET S == {r \in BagToSet(inflight) : r.kind \in kinds}
  IN BagCardinality([r \in S |-> inflight[r]])
PollsInFlight == InFlight({"poll"})
RefreshesInFlight == InFlight({"refresh", "find"})

\* setInterval callback of startSystemPolling: pollSystemUSBDevices up to the
\* await.  On an unsupported platform getSystemUSBDevices resolves at once.
PollSystemCycle(ok, maxPending) ==
  /\ BagIn("system", intervals)
  /\ appended < MaxHist
  /\ IF SupportedPlatform
     THEN /\ PollsInFlight < maxPending
          /\ inflight' = inflight (+) SetToBag({Pending("poll", ok)})
          /\ UNCHANGED coreVars
     ELSE /\ ok
          /\ SetCore(ApplySystemPoll(Core, <<>>, now))
          /\ UNCHANGED inflight
  /\ UNCHANGED <<envVars, libVars, monVars, attached, enrich, now, obsVars>>

PollSystemStart(ok) == PollSystemCycle(ok, MaxInflight)

\* the continuation of a poll cycle clearing the interval when its command
\* failed
PollSystemApplyStops(r) ==
  /\ BagIn(r, inflight)
  /\ r.kind = "poll"
  /\ appended < MaxHist
  /\ inflight' = inflight (-) SetToBag({r})
  /\ IF r.ok
     THEN /\ SetCore(ApplySystemPoll(Core, GetSystemUSBDevices(platform, r.ok, r.out, now), now))
          /\ UNCHANGED monVars
     ELSE /\ intervals' = EmptyBag
          /\ UNCHANGED <<coreVars, isMonitoring, pollingInterval, nativeListeners,
                         nativeActive>>
  /\ UNCHANGED <<envVars, libVars, attached, enrich, now>>

\* pollSystemUSBDevices leaving the live set alone when the command failed
PollSystemApplySkipsFailed(r) ==
  /\ BagIn(r, inflight)
  /\ r.kind = "poll"
  /\ appended < MaxHist
  /\ inflight' = inflight (-) SetToBag({r})
  /\ IF r.ok
     THEN SetCore(ApplySystemPoll(Core, GetSystemUSBDevices(platform, r.ok, r.out, now), now))
     ELSE UNCHANGED coreVars
  /\ UNCHANGED <<envVars, libVars, monVars, attached, enrich, now>>

\* the exec callback of a poll cycle: pollSystemUSBDevices after the await
PollSystemApplyBody(r) ==
  /\ BagIn(r, inflight)
  /\ r.kind = "poll"
  /\ appended < MaxHist
  /\ inflight' = inflight (-) SetToBag({r})
  /\ SetCore(ApplySystemPoll(Core, GetSystemUSBDevices(platform, r.ok, r.out, now), now))
  /\ UNCHANGED <<envVars, libVars, monVars, attached, enrich, now>>

PollSystemApply(r) == PollSystemApplyBody(r) /\ UNCHANGED obsVars

\* "Check for new devices" of pollUSBDevices: the ids are tested synchronously;
\* a device whose open() throws is connected, with status 'error', as soon as
\* the synchronous part of the cycle is over; the others wait for their
\* descriptor reads.
UsbMissing(m, l) == SelectSeq(l, LAMBDA p : ~MapHas(m, GenerateDeviceIdFromUSB(p)))

RECURSIVE ConnectFailed(_, _, _, _, _)
ConnectFailed(c, l, F, i, t) ==
  IF i > Len(l) THEN c
  ELSE ConnectFailed(IF l[i] \in F
                     THEN HandleDeviceConnect(c, EnrichUSBDeviceInfo(l[i], "connected", TRUE, t), t)
                     ELSE c, l, F, i + 1, t)

\* an enumeration given up at the first device whose open() throws
PendingEnrichAborts(kind, l, F, t) ==
  IF F # {} THEN EmptyBag
  ELSE [e \in {[kind |-> kind, p |-> l[i], t |-> t] : i \in 1..Len(l)} |-> 1]

PendingEnrich(kind, l, F, t) ==
  LET ps == {l[i] : i \in 1..Len(l)} \ F
  IN [e \in {[kind |-> kind, p |-> p, t |-> t] : p \in ps} |-> 1]

\* setInterval callback of startUSBPolling.  listThrows: getDeviceList() throws;
\* F: the new devices whose open() throws.
PollUSBDevices(listThrows, F) ==
  /\ BagIn("usb", intervals)
  /\ appended < MaxHist
  /\ IF listThrows \/ ~usbLib
     THEN /\ F = {}
          /\ UNCHANGED <<coreVars, enrich>>
     ELSE LET currentDevices == SortedPhys(attached)
              currentDeviceIds == {GenerateDeviceIdFromUSB(p) : p \in attached}
              missing == UsbMissing(devices, currentDevices)
              c1 == DisconnectGone(Core, currentDeviceIds, 1, now)
          IN /\ F \subseteq {missing[i] : i \in 1..Len(missing)}
             /\ BagCardinality(enrich) + Len(missing) - Cardinality(F) <= MaxEnrich
             /\ enrich' = enrich (+) PendingEnrich("poll", missing, F, now)
             /\ SetCore(ConnectFailed(c1, missing, F, 1, now))
  /\ UNCHANGED <<envVars, libVars, monVars, attached, inflight, now, obsVars>>

\* continuation of the async forEach callback once enrichUSBDeviceInfo resolves
EnrichDone(e) ==
  /\ BagIn(e, enrich)
  /\ e.kind = "poll" => appended < MaxHist
  /\ enrich' = enrich (-) SetToBag({e})
  /\ LET deviceInfo == EnrichUSBDeviceInfo(e.p, "connected", FALSE, e.t)
     IN IF e.kind = "poll"
        THEN SetCore(HandleDeviceConnect(Core, deviceInfo, now))
        ELSE /\ devices' = MapSet(devices, deviceInfo)
             /\ UNCHANGED <<connectionHistory, appended, events, removalTimers>>
  /\ UNCHANGED <<envVars, libVars, monVars, attached, inflight, now, obsVars>>

(***************************************************************************)
(* refreshDeviceList.  initialize() is refreshDeviceList() followed, once  *)
(* its promise has resolved, by startMonitoring().                         *)
(***************************************************************************)
RECURSIVE SetAll(_, _, _)
SetAll(m, recs, i) ==
  IF i > Len(recs) THEN m ELSE SetAll(MapSet(m, recs[i]), recs, i + 1)

\* refreshWithUSBLibrary: records of the devices whose open() throws are set
\* before the promise resolves, the others after their descriptor reads
FailedRecords(l, F, t) ==
  LET fl == SelectSeq(l, LAMBDA p : p \in F)
  IN [i \in 1..Len(fl) |-> EnrichUSBDeviceInfo(fl[i], "connected", TRUE, t)]

\* refreshDeviceList() up to its first suspension.  ok: the substrate call
\* (getDeviceList / find / exec) succeeds; F: devices whose open() throws.
\* resolved' tells whether the promise has settled within the call.
RefreshCallBody(ok, F) ==
  /\ phase = "ready"
  /\ CASE monitoringMethod = "node-usb-detection" /\ usbDetection ->
            /\ F = {}
            /\ RefreshesInFlight < MaxRefresh
            /\ devices' = <<>>
            /\ inflight' = inflight (+) SetToBag({Pending("find", ok)})
            /\ UNCHANGED enrich
       [] monitoringMethod = "usb-polling" /\ usbLib ->
            IF ~ok
            THEN /\ F = {}
                 /\ devices' = <<>>
                 /\ UNCHANGED <<inflight, enrich>>
            ELSE LET l == SortedPhys(attached)
                 IN /\ F \subseteq attached
                    /\ BagCardinality(enrich) + Cardinality(attached \ F) <= MaxEnrich
                    /\ devices' = SetAll(<<>>, FailedRecords(l, F, now), 1)
                    /\ enrich' = enrich (+) PendingEnrich("refresh", l, F, now)
                    /\ UNCHANGED inflight
       [] monitoringMethod = "system-polling" /\ SupportedPlatform ->
            /\ F = {}
            /\ RefreshesInFlight < MaxRefresh
            /\ devices' = <<>>
            /\ inflight' = inflight (+) SetToBag({Pending("refresh", ok)})
            /\ UNCHANGED enrich
       [] OTHER ->
            /\ F = {} /\ ok
            /\ devices' = <<>>
            /\ UNCHANGED <<inflight, enrich>>
  /\ UNCHANGED <<envVars, libVars, monVars, attached, connectionHistory, appended,
                 events, removalTimers, now>>

RefreshDeviceList(ok, F) ==
  /\ RefreshCallBody(ok, F)
  /\ UNCHANGED obsVars

\* records set by the callback of usbDetection.find
FoundRecords(out, t) ==
  LET l == SortedPhys(out)
  IN [i \in 1..Len(l) |-> EnrichDeviceInfo(NativeDevice(l[i]), "connected", t)]

\* the exec / find callback of a refresh: refreshWithSystemCommands after the
\* await, or the callback in refreshWithNativeDetection (a find error rejects
\* the promise and sets nothing)
RefreshResolveBody(r) ==
  /\ BagIn(r, inflight)
  /\ r.kind \in {"refresh", "find"}
  /\ inflight' = inflight (-) SetToBag({r})
  /\ devices' =
       IF r.kind = "find"
       THEN IF r.ok THEN SetAll(devices, FoundRecords(r.out, now), 1) ELSE devices
       ELSE SetAll(devices, GetSystemUSBDevices(platform, r.ok, r.out, now), 1)
  /\ UNCHANGED <<envVars, libVars, monVars, attached, connectionHistory, appended,
                 events, removalTimers, enrich, now>>

RefreshResolve(r) ==
  /\ RefreshResolveBody(r)
  /\ UNCHANGED obsVars

(***************************************************************************)
(* Specifications.                                                         *)
(***************************************************************************)
\* The process from the loading of the module file on.
Next ==
  \/ LoadModule
  \/ \E t \in BOOLEAN : StartMonitoring(t)
  \/ \E t \in BOOLEAN : StopMonitoring(t)
  \/ \E t \in BOOLEAN : Cleanup(t)
  \/ \E p \in Phys : Attach(p)
  \/ \E p \in Phys : Detach(p)
  \/ \E id \in BagToSet(removalTimers) : RemovalTimerFire(id)
  \/ \E ok \in BOOLEAN : PollSystemStart(ok)
  \/ \E r \in BagToSet(inflight) : PollSystemApply(r)
  \/ \E lt \in BOOLEAN, F \in SUBSET Phys : PollUSBDevices(lt, F)
  \/ \E e \in BagToSet(enrich) : EnrichDone(e)
  \/ \E ok \in BOOLEAN, F \in SUBSET Phys : RefreshDeviceList(ok, F)
  \/ \E r \in BagToSet(inflight) : RefreshResolve(r)

Spec == Init /\ [][Next]_vars

\* The command-poll strategy.
NextCmd ==
  \/ \E t \in BOOLEAN : StartMonitoring(t)
  \/ \E t \in BOOLEAN : StopMonitoring(t)
  \/ \E t \in BOOLEAN : Cleanup(t)
  \/ \E p \in Phys : Attach(p)
  \/ \E p \in Phys : Detach(p)
  \/ \E id \in BagToSet(removalTimers) : RemovalTimerFire(id)
  \/ \E ok \in BOOLEAN : PollSystemStart(ok)
  \/ \E r \in BagToSet(inflight) : PollSystemApply(r)
  \/ \E ok \in BOOLEAN, F \in SUBSET Phys : RefreshDeviceList(ok, F)
  \/ \E r \in BagToSet(inflight) : RefreshResolve(r)

SpecCmd == InitCmd /\ [][NextCmd]_vars

(***************************************************************************)
(* History log on its own: addToHistory and getHistory called on a history *)
(* that is empty or nearly full.                                           *)
(***************************************************************************)
\* History after k transitions of one device plugged and unplugged in turn
\* under the native strategy, newest first.
Replug(k) ==
  [i \in 1..k |->
     LET seq == k - i + 1
         type == IF seq % 2 = 1 THEN "connect" ELSE "disconnect"
         info == EnrichDeviceInfo(NativeDevice(1), "connected", 0)
     IN [seq |-> seq, deviceId |-> info.id,
         device |-> IF type = "connect" THEN info
                    ELSE [info EXCEPT !.status = "disconnected", !.disconnectedAt = 0],
         eventType |-> type]]

NoResult == [called |-> FALSE, given |-> FALSE, limit |-> 0, value |-> <<>>]

InitHist ==
  /\ phase = "ready"
  /\ platform = "linux"
  /\ usbInstalled = TRUE
  /\ detInstalled = TRUE
  /\ usbLib = TRUE
  /\ usbDetection = TRUE
  /\ monitoringMethod = LoadUSBLibraries(TRUE, TRUE)
  /\ isMonitoring = FALSE
  /\ pollingInterval = "null"
  /\ intervals = EmptyBag
  /\ nativeListeners = 0
  /\ nativeActive = FALSE
  /\ attached = {}
  /\ devices = <<>>
  /\ \E k \in {0, HistoryCap - 1, HistoryCap} :
       /\ connectionHistory = Replug(k)
       /\ appended = k
  /\ events = <<>>
  /\ removalTimers = EmptyBag
  /\ inflight = EmptyBag
  /\ enrich = EmptyBag
  /\ now = 0
  /\ refreshLog = <<>>
  /\ result = NoResult

\* addToHistory(device, eventType) with the record a handler passes for p
AppendEntry(p, eventType) ==
  /\ \/ appended < MaxAppends
     \/ appended >= HistoryCap - 1 /\ appended < HistoryCap + MaxAppends
  /\ LET info == EnrichDeviceInfo(NativeDevice(p), "connected", now)
         device == IF eventType = "connect" THEN info
                   ELSE [info EXCEPT !.status = "disconnected", !.disconnectedAt = now]
         c == AddToHistory(Core, device, eventType)
     IN /\ connectionHistory' = c.hist
        /\ appended' = c.n
  /\ result' = NoResult
  /\ UNCHANGED <<envVars, libVars, monVars, attached, devices, events, removalTimers,
                 inflight, enrich, now, refreshLog>>

\* getHistory(limit), or getHistory() when no argument is given
GetHistoryCall(given, limit) ==
  /\ ~given => limit = DefaultLimit
  /\ result' = [called |-> TRUE, given |-> given, limit |-> limit,
                value |-> GetHistory(connectionHistory, IF given THEN limit ELSE DefaultLimit)]
  /\ UNCHANGED <<envVars, libVars, monVars, attached, coreVars, inflight, enrich, now,
                 refreshLog>>

LimitValues == (-2..3) \cup {DefaultLimit, HistoryCap - 1, HistoryCap, HistoryCap + 1}

NextHist ==
  \/ \E p \in Phys, eventType \in {"connect", "disconnect"} : AppendEntry(p, eventType)
  \/ \E given \in BOOLEAN, limit \in LimitValues : GetHistoryCall(given, limit)

SpecHist == InitHist /\ [][NextHist]_vars

(***************************************************************************)
(* Manual refreshes following one another under the command-poll strategy, *)
(* with the clock running.                                                 *)
(***************************************************************************)
\* observer: what the substrate reported to a refresh, the live ids and the
\* number of transitions at the moment its promise resolved
Logged(sub, m) ==
  LET l == Append(refreshLog, [sub |-> sub, live |-> MapIds(m), n |-> appended])
  IN IF Len(l) > 2 THEN Tail(l) ELSE l

ObservedRefreshCall(ok) ==
  /\ RefreshCallBody(ok, {})
  /\ refreshLog' = IF SupportedPlatform THEN refreshLog ELSE Logged(<<ok, {}>>, devices')
  /\ UNCHANGED result

ObservedRefreshResolve(r) ==
  /\ RefreshResolveBody(r)
  /\ refreshLog' = Logged(<<r.ok, r.out>>, devices')
  /\ UNCHANGED result

NextRefresh ==
  \/ \E p \in Phys : Attach(p)
  \/ \E p \in Phys : Detach(p)
  \/ Tick
  \/ \E ok \in BOOLEAN : ObservedRefreshCall(ok)
  \/ \E r \in BagToSet(inflight) : ObservedRefreshResolve(r)

SpecRefresh == InitCmd /\ [][NextRefresh]_vars

(***************************************************************************)
(* Properties.                                                             *)
(***************************************************************************)
\* the entries a step appends to the history, newest first
NewEntries == SubSeq(connectionHistory', 1, appended' - appended)
\* the events a step emits, in emission order
NewEvents == SubSeq(events', Len(events) + 1, Len(events'))
IsDisconnected(m, id) == MapHas(m, id) /\ MapGet(m, id).status = "disconnected"
IsConnected(m, id) == MapHas(m, id) /\ MapGet(m, id).status = "connected"

\* C9: strategy selection never fails: whatever packages are installed,
\* loading ends with monitoringMethod set to the first available of
\* native events, usb-library polling, command polling.
C9_SelectionNeverFails ==
  /\ phase # "loadfailed"
  /\ phase = "ready" =>
       monitoringMethod = (IF detInstalled THEN "node-usb-detection"
                           ELSE IF usbInstalled THEN "usb-polling"
                           ELSE "system-polling")

\* the substrates that currently drive monitoring: registered native
\* listeners of a started detector, and running poll timers
DrivingSubstrates ==
  {m \in {"node-usb-detection", "usb-polling", "system-polling"} :
     \/ m = "node-usb-detection" /\ nativeActive /\ nativeListeners > 0
     \/ m = "usb-polling" /\ BagIn("usb", intervals)
     \/ m = "system-polling" /\ BagIn("system", intervals)}

\* C10: the strategy is fixed: whatever drives monitoring is the substrate
\* monitoringMethod names, also after starting that substrate has thrown.
C10_DrivenBySelected ==
  phase = "ready" => DrivingSubstrates \subseteq {monitoringMethod}

\* C5: no disconnect transition is logged for an id whose record is already
\* 'disconnected' and waiting for its removal timer, and no step logs two
\* disconnects of one id.
C5_NoDuplicateDisconnect ==
  [][\A i \in 1..Len(NewEntries) :
       NewEntries[i].eventType = "disconnect" =>
         /\ ~IsDisconnected(devices, NewEntries[i].deviceId)
         /\ \A j \in 1..Len(NewEntries) :
              (j # i /\ NewEntries[j].eventType = "disconnect")
                => NewEntries[j].deviceId # NewEntries[i].deviceId]_vars

EventName(eventType) ==
  IF eventType = "connect" THEN "deviceConnected" ELSE "deviceDisconnected"

\* C8: every transition emits exactly one event: the i-th event emitted is
\* that of the i-th history entry appended (deviceConnected for connect,
\* deviceDisconnected for disconnect, same record), and its listeners see
\* the history entry and the registry update already made.
C8_OneEventPerTransition ==
  /\ Len(events) = appended
  /\ Len(connectionHistory) = appended
  /\ \A i \in 1..Len(events) :
       LET ev == events[i]
           entry == connectionHistory[appended - i + 1]
       IN /\ entry.seq = i
          /\ ev.n = i
          /\ ev.type = EventName(entry.eventType)
          /\ ev.device = entry.device
          /\ ev.device.id = entry.deviceId
          /\ entry.eventType = "disconnect" => ev.device.status = "disconnected"

C8_Witness ==
  /\ Len(events) = MaxHist
  /\ events[1].type = "deviceConnected"
  /\ \E i \in 2..Len(events) : events[i].type = "deviceDisconnected"

\* what one poll cycle must produce when it applies the ids new to the live
\* map: connects for the ids of new that the map lacks (deferred: those whose
\* connect waits for a descriptor read), disconnects for the connected ids of
\* the map that new lacks, each once, and nothing else
CycleProduces(new, deferred) ==
  LET es == NewEntries
      conn == {i \in 1..Len(es) : es[i].eventType = "connect"}
      disc == {i \in 1..Len(es) : es[i].eventType = "disconnect"}
      added == new \ MapIds(devices)
      removed == {id \in MapIds(devices) \ new : IsConnected(devices, id)}
  IN /\ {es[i].deviceId : i \in conn} \cup deferred = added
     /\ Cardinality(conn) + Cardinality(deferred) = Cardinality(added)
     /\ {es[i].deviceId : i \in disc} = removed
     /\ Cardinality(disc) = Cardinality(removed)

\* C1: a poll cycle (pollSystemUSBDevices, pollUSBDevices) applying snapshot
\* S_new to live map S_old produces connects exactly for ids(S_new) minus
\* ids(S_old), disconnects exactly for the connected ids of S_old missing
\* from S_new, and no other transition.
C1_DiffExact ==
  [][/\ \A r \in BagToSet(inflight) :
          PollSystemApply(r) =>
            CycleProduces(SeqIds(GetSystemUSBDevices(platform, r.ok, r.out, now)), {})
     /\ (PollSystemStart(TRUE) /\ ~SupportedPlatform) => CycleProduces({}, {})
     /\ \A F \in SUBSET Phys :
          PollUSBDevices(FALSE, F) =>
            /\ BagToSet(enrich' (-) enrich) \subseteq
                 {[kind |-> "poll", p |-> p, t |-> now] : p \in attached}
            /\ CycleProduces({GenerateDeviceIdFromUSB(p) : p \in attached},
                             {GenerateDeviceIdFromUSB(e.p) : e \in BagToSet(enrich' (-) enrich)})
     /\ PollUSBDevices(TRUE, {}) => NewEntries = <<>>
     /\ \A e \in BagToSet(enrich) :
          (EnrichDone(e) /\ e.kind = "poll") =>
            /\ Len(NewEntries) = 1
            /\ NewEntries[1].eventType = "connect"
            /\ NewEntries[1].deviceId = GenerateDeviceIdFromUSB(e.p)]_vars

\* a usb-library poll cycle found one of two connected devices gone
C1_Witness ==
  /\ monitoringMethod = "usb-polling"
  /\ Len(connectionHistory) = 3
  /\ connectionHistory[1].eventType = "disconnect"
  /\ connectionHistory[2].eventType = "connect"
  /\ connectionHistory[3].eventType = "connect"
  /\ connectionHistory[2].deviceId # connectionHistory[3].deviceId
  /\ \E i \in 2..3 :
       /\ connectionHistory[1].deviceId = connectionHistory[i].deviceId
       /\ IsConnected(devices, connectionHistory[5 - i].deviceId)

\* a removal timer of id fires in the step
TimerFires(id) == CopiesIn(id, removalTimers') < CopiesIn(id, removalTimers)

\* every disconnect a step logs leaves its record in the registry, flipped
DisconnectKeepsRecord ==
  \A i \in 1..Len(NewEntries) :
    NewEntries[i].eventType = "disconnect" => IsDisconnected(devices', NewEntries[i].deviceId)

\* C3 as stated: after a disconnect the record stays in the live set with
\* status 'disconnected' until its 5 s timer fires; only the timer firing
\* removes it.
C3_OnlyTimerRemoves ==
  [][/\ DisconnectKeepsRecord
     /\ \A id \in MapIds(devices) :
          (IsDisconnected(devices, id) /\ BagIn(id, removalTimers) /\ ~TimerFires(id))
            => IsDisconnected(devices', id)]_vars

\* the step rewrites the registry wholesale: refreshDeviceList() clearing it or
\* one of its callbacks re-populating it, or cleanup()
HardReset ==
  \/ \E ok \in BOOLEAN, F \in SUBSET Phys : RefreshDeviceList(ok, F)
  \/ \E r \in BagToSet(inflight) : RefreshResolve(r)
  \/ \E e \in BagToSet(enrich) : EnrichDone(e) /\ e.kind = "refresh"
  \/ \E t \in BOOLEAN : Cleanup(t)

\* the step logs a connect of id and leaves its record in the registry
Reconnects(id) ==
  /\ MapHas(devices', id)
  /\ \E i \in 1..Len(NewEntries) :
       NewEntries[i].eventType = "connect" /\ NewEntries[i].deviceId = id

\* C3 amended: a disconnect leaves the record in the live set with status
\* 'disconnected'; from then on the record stays so unless a removal timer
\* of the id fires, refreshDeviceList() (clearing or re-populating) or
\* cleanup() rewrites the registry, or a connect of the same id replaces it.
C3_GraceRemoval ==
  [][/\ DisconnectKeepsRecord
     /\ \A id \in MapIds(devices) :
          IsDisconnected(devices, id) =>
            \/ IsDisconnected(devices', id)
            \/ TimerFires(id) /\ ~MapHas(devices', id)
            \/ HardReset
            \/ Reconnects(id)]_vars

\* a record is 'disconnected' and its removal timer is pending
C3_Witness ==
  \E id \in MapIds(devices) :
    /\ IsDisconnected(devices, id)
    /\ BagIn(id, removalTimers)
    /\ connectionHistory[1].eventType = "disconnect"
    /\ connectionHistory[1].deviceId = id

\* C6: the stored history never exceeds 1000 entries; it always holds the
\* min(appended, 1000) most recently appended entries, newest first, the
\* older ones being discarded.
C6_HistoryCap ==
  /\ Len(connectionHistory) <= HistoryCap
  /\ Len(connectionHistory) = Min(appended, HistoryCap)
  /\ \A i \in 1..Len(connectionHistory) : connectionHistory[i].seq = appended - i + 1

\* more than 1000 entries have been appended
C6_Witness ==
  /\ appended > HistoryCap + 1
  /\ Len(connectionHistory) = HistoryCap
  /\ connectionHistory[HistoryCap].seq = appended - HistoryCap + 1

\* what getHistory must return for the effective limit l
ReturnsMostRecent(value, l) ==
  /\ Len(value) = Min(l, Len(connectionHistory))
  /\ \A i \in 1..Len(value) :
       value[i] = connectionHistory[i] /\ value[i].seq = appended - i + 1

EffectiveLimit(given, limit) == IF given THEN limit ELSE DefaultLimit

\* C7 as stated: for every limit passed, getHistory(limit) returns the
\* min(limit, stored) most recent entries newest-first and leaves the stored
\* history unchanged; with no argument the limit is 50.
C7_AnyLimit ==
  [][\A given \in BOOLEAN, limit \in LimitValues :
       GetHistoryCall(given, limit) =>
         /\ ReturnsMostRecent(result'.value, EffectiveLimit(given, limit))
         /\ connectionHistory' = connectionHistory]_vars

\* C7 amended: the same for every limit >= 0.
C7_NonNegativeLimit ==
  [][\A given \in BOOLEAN, limit \in LimitValues :
       (GetHistoryCall(given, limit) /\ EffectiveLimit(given, limit) >= 0) =>
         /\ ReturnsMostRecent(result'.value, EffectiveLimit(given, limit))
         /\ connectionHistory' = connectionHistory]_vars

\* getHistory() without argument returned 50 of more than 50 stored entries
C7_Witness ==
  /\ result.called
  /\ ~result.given
  /\ Len(connectionHistory) > DefaultLimit
  /\ Len(result.value) = DefaultLimit
  /\ result.value[1] = connectionHistory[1]

\* C2: two refreshDeviceList() calls in a row to which the substrate reports
\* the same device set: the second produces no transition and leaves the
\* live set equal to the one after the first.
C2_RefreshIdempotent ==
  (Len(refreshLog) = 2 /\ refreshLog[1].sub = refreshLog[2].sub) =>
     /\ refreshLog[2].n = refreshLog[1].n
     /\ refreshLog[2].live = refreshLog[1].live

\* every id a system-command parser can produce
CmdIds ==
  UNION {SeqIds(ParseSystemUSBOutput(S, plat, t)) :
           S \in SUBSET Phys, plat \in Platforms, t \in 0..MaxTime}

\* the event loop runs every timer callback that is due
TimersRun == \A id \in CmdIds : WF_vars(RemovalTimerFire(id))

SpecCmdFair == SpecCmd /\ TimersRun

DisconnectEventsFor(id) ==
  {i \in 1..Len(NewEvents) :
     NewEvents[i].type = "deviceDisconnected" /\ NewEvents[i].device.id = id}

\* C4: under command-poll, a poll whose output lacks a connected id emits
\* exactly one deviceDisconnected for it; the id is eventually absent from
\* getDevices(); the removal timer deletes from the live set only, so the
\* history (and getHistory(1)) is as it was before the timer fired.
C4_PollDisconnect ==
  /\ [][/\ \A r \in BagToSet(inflight) :
             PollSystemApply(r) =>
               \A id \in MapIds(devices) :
                 (/\ IsConnected(devices, id)
                  /\ id \notin SeqIds(GetSystemUSBDevices(platform, r.ok, r.out, now)))
                   => Cardinality(DisconnectEventsFor(id)) = 1
        /\ \A id \in BagToSet(removalTimers) :
             RemovalTimerFire(id) =>
               /\ connectionHistory' = connectionHistory
               /\ GetHistory(connectionHistory', 1) = GetHistory(connectionHistory, 1)
               /\ ~MapHas(devices', id)]_vars
  /\ \A id \in CmdIds :
       (IsDisconnected(devices, id) /\ BagIn(id, removalTimers)) ~> ~MapHas(devices, id)

\* the timer of a polled disconnect has fired: the id is gone from the live
\* set and getHistory(1) returns its disconnect entry
C4_Witness ==
  /\ monitoringMethod = "system-polling"
  /\ Len(connectionHistory) >= 2
  /\ LET last == GetHistory(connectionHistory, 1)[1]
     IN /\ last.eventType = "disconnect"
        /\ ~MapHas(devices, last.deviceId)
        /\ ~BagIn(last.deviceId, removalTimers)

(***************************************************************************)
(* Command polling whose timer may fire again while the command of an      *)
(* earlier cycle is still running (setInterval does not wait for it).      *)
(***************************************************************************)
InitOverlap == InitCmd /\ platform = "linux"

TimerFiresAgain(ok) == PollSystemCycle(ok, MaxOverlap)

NextOverlap ==
  \/ \E t \in BOOLEAN : StartMonitoring(t)
  \/ \E p \in Phys : Attach(p)
  \/ \E p \in Phys : Detach(p)
  \/ \E id \in BagToSet(removalTimers) : RemovalTimerFire(id)
  \/ \E ok \in BOOLEAN : TimerFiresAgain(ok)
  \/ \E r \in BagToSet(inflight) : PollSystemApply(r)

SpecOverlap == InitOverlap /\ [][NextOverlap]_vars

\* C11: at most one poll cycle is in flight: a cycle whose timer fires while
\* the previous cycle has not completed is skipped.
C11_OverlapSkipped ==
  /\ [](PollsInFlight <= 1)
  /\ [][\A ok \in BOOLEAN :
          (TimerFiresAgain(ok) /\ PollsInFlight > 0) => UNCHANGED <<inflight, coreVars>>]_vars

\* C12: the result of a poll cycle that arrives after stopMonitoring() or
\* cleanup() has returned is ignored: the registry, the history, the events
\* and the timers are left as they are.
C12_LateResultIgnored ==
  [][\A r \in BagToSet(inflight) :
       (PollSystemApply(r) /\ ~isMonitoring) => UNCHANGED coreVars]_vars

\* C13: stopMonitoring() called while monitoring is not active (never
\* started, or already stopped) changes nothing, so a second stop leaves the
\* state the first one produced.
C13_StopIdempotent ==
  [][\A t \in BOOLEAN : (StopMonitoring(t) /\ ~isMonitoring) => UNCHANGED vars]_vars

\* monitoring was started under the native strategy and has been stopped
C13_Witness ==
  /\ phase = "ready"
  /\ ~isMonitoring
  /\ nativeListeners > 0
  /\ ~nativeActive
  /\ pollingInterval = "null"
  /\ intervals = EmptyBag

\* C14: when the promise of refreshDeviceList() resolves, the live set holds
\* a record for every device the substrate enumerated during the refresh,
\* under each of the three strategies.
C14_RefreshComplete ==
  [][/\ \A F \in SUBSET Phys :
          (RefreshDeviceList(TRUE, F) /\ monitoringMethod = "usb-polling" /\ usbLib) =>
            {GenerateDeviceIdFromUSB(p) : p \in attached} \subseteq MapIds(devices')
     /\ \A r \in BagToSet(inflight) :
          (RefreshResolve(r) /\ r.ok) =>
            IF r.kind = "find"
            THEN SeqIds(FoundRecords(r.out, now)) \subseteq MapIds(devices')
            ELSE SeqIds(GetSystemUSBDevices(platform, r.ok, r.out, now))
                   \subseteq MapIds(devices')]_vars

(***************************************************************************)
(* How the promise of refreshDeviceList() settles, under each strategy.    *)
(***************************************************************************)
\* State after `new RobustUSBManager()` for each outcome of loadUSBLibraries.
InitReady ==
  \/ InitCmd
  \/ /\ phase = "ready"
     /\ platform = "linux"
     /\ usbInstalled = TRUE
     /\ detInstalled \in BOOLEAN
     /\ usbLib = usbInstalled
     /\ usbDetection = detInstalled
     /\ monitoringMethod = LoadUSBLibraries(detInstalled, usbInstalled)
     /\ Constructed

\* settlement within the call: "pending" when refreshDeviceList is suspended
\* on a callback.  ok: getDeviceList() returns (usb-polling).
SettlesInCall(method, det, usb, plat, ok) ==
  CASE method = "node-usb-detection" -> IF det THEN "pending" ELSE "resolved"
    [] method = "usb-polling" -> IF usb /\ ~ok THEN "rejected" ELSE "resolved"
    [] method = "system-polling" ->
         IF plat \in {"darwin", "linux", "win32"} THEN "pending" ELSE "resolved"
    [] OTHER -> "resolved"

\* settlement of a refresh command that reports failure
FailedCommandSettlesStrict(kind, ok) == IF ok THEN "resolved" ELSE "rejected"

\* settlement once the callback of find (reject(err) / resolve()) or of the
\* system command (getSystemUSBDevices always resolves) has run
SettlesInCallback(kind, ok) ==
  IF kind = "find" /\ ~ok THEN "rejected" ELSE "resolved"

\* observer: the substrate's report and the settlement of a refresh
Settled(ok, out, settled) ==
  <<[ok |-> ok, out |-> out, live |-> MapIds(devices'), settled |-> settled]>>

SettlingRefreshCall(ok, F) ==
  /\ RefreshCallBody(ok, F)
  /\ LET s == SettlesInCall(monitoringMethod, usbDetection, usbLib, platform, ok)
     IN refreshLog' = IF s = "pending" THEN <<>> ELSE Settled(ok, attached, s)
  /\ UNCHANGED result

SettlingRefreshCallback(r) ==
  /\ RefreshResolveBody(r)
  /\ refreshLog' = Settled(r.ok, r.out, SettlesInCallback(r.kind, r.ok))
  /\ UNCHANGED result

NextSettle ==
  \/ \E p \in Phys : Attach(p)
  \/ \E p \in Phys : Detach(p)
  \/ \E ok \in BOOLEAN, F \in SUBSET Phys : SettlingRefreshCall(ok, F)
  \/ \E r \in BagToSet(inflight) : SettlingRefreshCallback(r)
  \/ \E e \in BagToSet(enrich) : EnrichDone(e)

SpecSettle == InitReady /\ [][NextSettle]_vars

\* C15: refreshDeviceList() rejects only when the enumeration of the active
\* substrate itself fails, and never under system-polling, whatever the
\* command does.
C15_RejectsOnlyOnFailure ==
  \A i \in 1..Len(refreshLog) :
    /\ refreshLog[i].settled \in {"resolved", "rejected"}
    /\ refreshLog[i].settled = "rejected" => ~refreshLog[i].ok
    /\ monitoringMethod = "system-polling" => refreshLog[i].settled = "resolved"

\* a refresh under system-polling whose command failed has resolved
C15_Witness ==
  /\ monitoringMethod = "system-polling"
  /\ attached # {}
  /\ Len(refreshLog) = 1
  /\ ~refreshLog[1].ok
  /\ refreshLog[1].settled = "resolved"
  /\ refreshLog[1].live = {}

(***************************************************************************)
(* The external enumeration command on its own.                            *)
(***************************************************************************)
\* an exec callback that passes the command's error on
ExecCallbackPropagates(plat, error, parseThrows, out, t) ==
  IF error \/ parseThrows
  THEN [settled |-> "rejected", value |-> <<>>]
  ELSE [settled |-> "resolved", value |-> ParseSystemUSBOutput(out, plat, t)]

\* the exec callback in getSystemUSBDevices.  error: the command failed;
\* parseThrows: parseSystemUSBOutput throws on the output
ExecCallback(plat, error, parseThrows, out, t) ==
  IF error THEN [settled |-> "resolved", value |-> <<>>]
  ELSE IF parseThrows THEN [settled |-> "resolved", value |-> <<>>]
  ELSE [settled |-> "resolved", value |-> ParseSystemUSBOutput(out, plat, t)]

\* getSystemUSBDevices() called and its promise settled
CommandReturns(error, parseThrows) ==
  /\ phase = "ready"
  /\ result' = [error |-> error, parseThrows |-> parseThrows, out |-> attached,
                promise |-> IF SupportedPlatform
                            THEN ExecCallback(platform, error, parseThrows, attached, now)
                            ELSE [settled |-> "resolved", value |-> <<>>]]
  /\ UNCHANGED <<envVars, libVars, monVars, attached, coreVars, inflight, enrich, now,
                 refreshLog>>

NextCommand ==
  \/ \E p \in Phys : Attach(p)
  \/ \E p \in Phys : Detach(p)
  \/ Tick
  \/ \E error \in BOOLEAN, parseThrows \in BOOLEAN : CommandReturns(error, parseThrows)

SpecCommand == InitCmd /\ [][NextCommand]_vars

InitUsb ==
  /\ phase = "ready"
  /\ platform = "linux"
  /\ usbInstalled = TRUE
  /\ detInstalled = FALSE
  /\ usbLib = TRUE
  /\ usbDetection = FALSE
  /\ monitoringMethod = LoadUSBLibraries(FALSE, TRUE)
  /\ Constructed

\* getStringDescriptor: null when the read reports an error (or there is no
\* descriptor), else the string read
GetStringDescriptor(readFails) == IF readFails THEN "null" ELSE "read"

\* the record enrichUSBDeviceInfo returns, metadata included.  openThrows:
\* usbDevice.open() throws; readFails: the descriptor reads report an error
DescribedRecord(p, status, openThrows, readFails, t) ==
  LET base == EnrichUSBDeviceInfo(p, status, openThrows, t)
      manufacturer == GetStringDescriptor(readFails)
  IN [id |-> base.id, status |-> base.status, lastSeen |-> base.lastSeen,
      disconnectedAt |-> base.disconnectedAt,
      serialNumber |-> IF openThrows THEN "null" ELSE GetStringDescriptor(readFails),
      manufacturer |-> IF openThrows \/ manufacturer = "null"
                       THEN "Unknown Manufacturer" ELSE manufacturer]

\* observer: enrichUSBDeviceInfo called on an attached device
EnrichReturns(p, openThrows, readFails) ==
  /\ p \in attached
  /\ result' = [p |-> p, openThrows |-> openThrows, readFails |-> readFails,
                record |-> DescribedRecord(p, "connected", openThrows, readFails, now)]
  /\ UNCHANGED <<envVars, libVars, monVars, attached, coreVars, inflight, enrich, now,
                 refreshLog>>

NextUsb ==
  \/ \E p \in Phys : Attach(p)
  \/ \E p \in Phys : Detach(p)
  \/ \E e \in BagToSet(enrich) : EnrichDone(e)
  \/ \E ok \in BOOLEAN, F \in SUBSET Phys : RefreshDeviceList(ok, F)
  \/ \E p \in Phys, o \in BOOLEAN, rf \in BOOLEAN : EnrichReturns(p, o, rf)

SpecUsb == InitUsb /\ [][NextUsb]_vars

UsbId(p) == GenerateDeviceIdFromUSB(p)

\* every device of one usb-library enumeration is processed: those whose
\* open() throws are recorded at once with status 'error', the descriptor
\* reads of the others are pending, and a completed read records its device
EnumerationGoesOn ==
  /\ \A F \in SUBSET Phys :
       RefreshDeviceList(TRUE, F) =>
         \A p \in attached :
           IF p \in F
           THEN MapHas(devices', UsbId(p)) /\ MapGet(devices', UsbId(p)).status = "error"
           ELSE CopiesIn([kind |-> "refresh", p |-> p, t |-> now], enrich')
                  > CopiesIn([kind |-> "refresh", p |-> p, t |-> now], enrich)
  /\ \A e \in BagToSet(enrich) :
       EnrichDone(e) => MapHas(devices', UsbId(e.p))

Placeholder(record) ==
  record.manufacturer = "Unknown Manufacturer" /\ record.serialNumber = "null"

DeviceObject(v, p, s) ==
  LET fields == {f \in {"vendorId", "productId", "serialNumber"} :
                   \/ f = "vendorId" /\ v # -1
                   \/ f = "productId" /\ p # -1
                   \/ f = "serialNumber" /\ s # "undefined"}
  IN [f \in fields |-> CASE f = "vendorId" -> v
                         [] f = "productId" -> p
                         [] OTHER -> s]

DeviceObjects ==
  {DeviceObject(v, p, s) : v \in -1..2, p \in -1..1,
                           s \in {"undefined", "", "no-serial", "SN1"}}

\* generateDeviceId of the older USBManager: the template has no default for
\* the vendor and product id, an absent one is printed as 'undefined' (-1 here)
USBManagerGenerateDeviceId(device) ==
  <<"gen",
    IF "vendorId" \in DOMAIN device THEN device.vendorId ELSE -1,
    IF "productId" \in DOMAIN device THEN device.productId ELSE -1,
    IF "serialNumber" \in DOMAIN device /\ device.serialNumber # ""
    THEN device.serialNumber ELSE "no-serial">>

\* generateDeviceId of both managers called on two device objects
GenerateIds(a, b) ==
  /\ phase = "ready"
  /\ result' = [a |-> a, b |-> b,
                ida |-> GenerateDeviceId(a), idb |-> GenerateDeviceId(b),
                olda |-> USBManagerGenerateDeviceId(a),
                oldb |-> USBManagerGenerateDeviceId(b)]
  /\ UNCHANGED <<envVars, libVars, monVars, attached, coreVars, inflight, enrich, now,
                 refreshLog>>

InitId == InitCmd /\ platform = "linux"

NextId == \E a \in DeviceObjects, b \in DeviceObjects : GenerateIds(a, b)

SpecId == InitId /\ [][NextId]_vars

\* C18 as stated: generateDeviceId gives equal ids for identical inputs and
\* different ids for inputs that differ in a component, an absent value
\* differing from every present one.
C18_Injective ==
  "ida" \in DOMAIN result =>
    /\ result.a = result.b => (result.ida = result.idb /\ result.olda = result.oldb)
    /\ result.a # result.b => (result.ida # result.idb /\ result.olda # result.oldb)

\* the component an id is built from: an absent field counts as 0 (vendor,
\* product) or as 'no-serial', and so does an empty serial string
NumberOr0(d, f) == IF f \in DOMAIN d THEN d[f] ELSE 0
SerialOrNone(d) ==
  IF "serialNumber" \in DOMAIN d /\ d.serialNumber # "" THEN d.serialNumber ELSE "no-serial"

NumberOrUndefined(d, f) == IF f \in DOMAIN d THEN d[f] ELSE -1

\* C18 amended: identical inputs give the same id, and two inputs give
\* different ids exactly when they differ in vendor id, product id or serial
\* number after an absent or empty serial number is read as 'no-serial' and,
\* in usb-manager-robust, an absent vendor or product id is read as 0.
C18_InjectiveOnDefaults ==
  "ida" \in DOMAIN result =>
    /\ result.a = result.b => (result.ida = result.idb /\ result.olda = result.oldb)
    /\ (result.ida # result.idb) <=>
         \/ NumberOr0(result.a, "vendorId") # NumberOr0(result.b, "vendorId")
         \/ NumberOr0(result.a, "productId") # NumberOr0(result.b, "productId")
         \/ SerialOrNone(result.a) # SerialOrNone(result.b)
    /\ (result.olda # result.oldb) <=>
         \/ NumberOrUndefined(result.a, "vendorId") # NumberOrUndefined(result.b, "vendorId")
         \/ NumberOrUndefined(result.a, "productId") # NumberOrUndefined(result.b, "productId")
         \/ SerialOrNone(result.a) # SerialOrNone(result.b)

\* two devices differing in the serial number only got different ids
C18_Witness ==
  /\ "ida" \in DOMAIN result
  /\ DOMAIN result.a = {"vendorId", "productId", "serialNumber"}
  /\ DOMAIN result.b = {"vendorId", "productId"}
  /\ result.a.vendorId = result.b.vendorId /\ result.a.vendorId # 0
  /\ result.a.productId = result.b.productId
  /\ result.a.serialNumber = "SN1"
  /\ result.ida # result.idb
  /\ result.olda # result.oldb

(***************************************************************************)
(* Successive command polls, with the device set each applied enumeration  *)
(* listed and the id it gave to each device kept for comparison.           *)
(***************************************************************************)
\* id the platform parser gives device p when the command lists the set out
ParsedIdOf(plat, out, p, t) ==
  LET l == SortedPhys(out)
      i == CHOOSE k \in 1..Len(l) : l[k] = p
  IN ParseSystemUSBOutput(out, plat, t)[i].id

ObservedPollApply(r) ==
  /\ PollSystemApplyBody(r)
  /\ result' = [ok |-> r.ok, out |-> r.out,
                ids |-> [p \in r.out |-> ParsedIdOf(platform, r.out, p, now)]]
  /\ UNCHANGED refreshLog

NextEnum ==
  \/ \E t \in BOOLEAN : StartMonitoring(t)
  \/ \E p \in Phys : Attach(p)
  \/ \E p \in Phys : Detach(p)
  \/ Tick
  \/ \E id \in BagToSet(removalTimers) : RemovalTimerFire(id)
  \/ \E ok \in BOOLEAN : PollSystemStart(ok)
  \/ \E r \in BagToSet(inflight) : ObservedPollApply(r)

SpecEnum == InitCmd /\ [][NextEnum]_vars

\* the enumeration applied before this one succeeded
PreviousEnumerated == "ids" \in DOMAIN result /\ result.ok

\* C19: under command polling a device listed by two successive enumerations
\* gets the same id in both, on every platform, and a poll cycle that lists
\* the same device set as the cycle before it produces no connect and no
\* disconnect transition.
C19_IdsStable ==
  [][\A r \in BagToSet(inflight) :
       (ObservedPollApply(r) /\ r.ok /\ SupportedPlatform /\ PreviousEnumerated) =>
         /\ \A p \in r.out \cap result.out :
              ParsedIdOf(platform, r.out, p, now) = result.ids[p]
         /\ r.out = result.out => NewEntries = <<>>]_vars

\* ids of the records with status 'connected'
ConnectedIds(m) == {id \in MapIds(m) : IsConnected(m, id)}

\* id enrichDeviceInfo gives the device reported by the native listeners
NativeId(p) == GenerateDeviceId(NativeDevice(p))

\* p and q share vendor id and product id (no device has a serial number)
Twins(p, q) == p # q /\ VendorOf(p) = VendorOf(q) /\ ProductOf(p) = ProductOf(q)

\* C20: two devices attached together that share vendor id and product id
\* and have no serial number are tracked apart: when the second is attached
\* while the first is tracked as connected, two records are connected, and
\* detaching one leaves the record of the other connected.
C20_TwinsTrackedApart ==
  [][\A p \in Phys, q \in Phys :
       (Twins(p, q) /\ NativeCallbacks > 0 /\ q \in attached
          /\ IsConnected(devices, NativeId(q))) =>
         /\ Attach(p) => Cardinality(ConnectedIds(devices')) >= 2
         /\ Detach(p) => IsConnected(devices', NativeId(q))]_vars

(***************************************************************************)
(* Read accessors and event payloads.  A value handed to a caller is       *)
(* either the stored object itself (a reference, named by the id it is     *)
(* stored under) or a copy of it.                                          *)
(***************************************************************************)
\* getDevice(deviceId): this.devices.get(deviceId), the stored object
GetDevice(m, id) == [ref |-> id]

\* getDevices(): Array.from(this.devices.values()), a new array of the
\* stored objects
GetDevices(m) == [i \in 1..Len(m) |-> GetDevice(m, m[i].id)]

\* payload of this.emit('deviceConnected' / 'deviceDisconnected', deviceInfo):
\* the object that was stored by handleDeviceConnect
EmittedPayload(m, id) == [ref |-> id]

\* the statement `handle.field = value` run by the caller
Assign(m, handle, field, value) ==
  IF "ref" \in DOMAIN handle /\ MapHas(m, handle.ref)
  THEN MapSet(m, [MapGet(m, handle.ref) EXCEPT ![field] = value])
  ELSE m

\* a caller fetches the record of id (with getDevice, or from the array of
\* getDevices) and overwrites its status field
CallerMutates(id, viaList) ==
  /\ phase = "ready"
  /\ MapHas(devices, id)
  /\ LET i == CHOOSE k \in 1..Len(devices) : devices[k].id = id
         handle == IF viaList THEN GetDevices(devices)[i] ELSE GetDevice(devices, id)
     IN devices' = Assign(devices, handle, "status", "tampered")
  /\ UNCHANGED <<envVars, libVars, monVars, attached, connectionHistory, appended, events,
                 removalTimers, inflight, enrich, now, obsVars>>

\* a native 'add' whose deviceConnected listener overwrites the status field
\* of the record it is passed
AttachListenerMutates(p) ==
  /\ p \notin attached
  /\ appended < MaxHist
  /\ NativeCallbacks > 0
  /\ attached' = attached \cup {p}
  /\ LET c == AddListeners(NativeCallbacks, Core, NativeDevice(p), now)
         handle == EmittedPayload(c.dev, NativeId(p))
     IN SetCore([c EXCEPT !.dev = Assign(@, handle, "status", "tampered")])
  /\ UNCHANGED <<envVars, libVars, monVars, inflight, enrich, now, obsVars>>

NextAccess ==
  \/ \E t \in BOOLEAN : StartMonitoring(t)
  \/ \E p \in Phys : Attach(p)
  \/ \E p \in Phys : Detach(p)
  \/ \E id \in BagToSet(removalTimers) : RemovalTimerFire(id)
  \/ \E id \in MapIds(devices), viaList \in BOOLEAN : CallerMutates(id, viaList)
  \/ \E p \in Phys : AttachListenerMutates(p)
  \/ \E ok \in BOOLEAN, F \in SUBSET Phys : RefreshDeviceList(ok, F)
  \/ \E r \in BagToSet(inflight) : RefreshResolve(r)
  \/ \E e \in BagToSet(enrich) : EnrichDone(e)

SpecAccess == InitReady /\ [][NextAccess]_vars

\* C21: mutating a record obtained from getDevices(), getDevice(id) or from
\* an emitted event changes neither the record stored in the live registry
\* nor any stored history entry.
C21_AccessorsCopy ==
  [][/\ \A id \in MapIds(devices), viaList \in BOOLEAN :
          CallerMutates(id, viaList) => UNCHANGED <<devices, connectionHistory>>
     /\ \A p \in Phys :
          AttachListenerMutates(p) =>
            /\ MapGet(devices', NativeId(p)).status = "connected"
            /\ connectionHistory'[1].device.status = "connected"]_vars

\* C22: a history entry is an immutable snapshot: every step leaves each
\* stored entry as it was appended (new entries go in front), and a 'connect'
\* entry never shows the status or disconnectedAt written by a later
\* disconnect of the same id.
C22_EntriesImmutable ==
  /\ [](\A i \in 1..Len(connectionHistory) :
          connectionHistory[i].eventType = "connect" =>
            /\ connectionHistory[i].device.status # "disconnected"
            /\ connectionHistory[i].device.disconnectedAt = -1)
  /\ [][\A i \in 1..Len(connectionHistory) :
          /\ i + (appended' - appended) <= Len(connectionHistory')
          /\ connectionHistory'[i + (appended' - appended)] = connectionHistory[i]]_vars

\* a device was logged as connected and later as disconnected, and its live
\* record has been flipped to 'disconnected'
C22_Witness ==
  \E i \in 1..Len(connectionHistory), j \in 1..Len(connectionHistory) :
    /\ i < j
    /\ connectionHistory[i].eventType = "disconnect"
    /\ connectionHistory[j].eventType = "connect"
    /\ connectionHistory[i].deviceId = connectionHistory[j].deviceId
    /\ connectionHistory[j].device.status = "connected"
    /\ IsDisconnected(devices, connectionHistory[i].deviceId)

(***************************************************************************)
(* Storage path lookup.  A text is a sequence of lines, a line a sequence  *)
(* of words [k, v]: a keyword or path prefix and a number.                 *)
(***************************************************************************)
\* the mounted volumes the commands would report: volume number and the
\* vendor / product id its descriptor output names
Mount(vol, vendor, product) == [vol |-> vol, vendor |-> vendor, product |-> product]
MountTables ==
  {<<>>,
   <<Mount(1, 2, 1)>>,
   <<Mount(1, 1, 1)>>,
   <<Mount(1, 2, 1), Mount(2, 1, 1), Mount(3, 1, 1)>>,
   <<Mount(3, 1, 1), Mount(2, 1, 1)>>}

Word(k, v) == [k |-> k, v |-> v]

\* what the mount-table command prints: one line per volume, path last
\* (third word on Linux; the drive name alone on Windows)
MountTableOutput(mounts) ==
  [i \in 1..Len(mounts) |->
     IF platform = "win32" THEN <<Word("/mnt/", mounts[i].vol)>>
     ELSE <<Word("dev", mounts[i].vol), Word("on", 0), Word("/mnt/", mounts[i].vol)>>]

\* what the per-volume descriptor command prints for volume word w
DescriptorOutput(mounts, w) ==
  LET S == {i \in 1..Len(mounts) : mounts[i].vol = w.v /\ w.k = "/mnt/"}
  IN IF S = {} THEN <<>>
     ELSE LET m == mounts[CHOOSE i \in S : TRUE]
          IN <<<<Word("Vendor ID:", m.vendor)>>, <<Word("Product ID:", m.product)>>>>

\* exec(cmd).toString(): child_process.exec returns the ChildProcess object
\* at once, its string form is '[object Object]' whatever cmd prints
ExecToString(output) == <<<<Word("[object", 0), Word("Object]", 0)>>>>

Includes(text, w) == \E i \in 1..Len(text) : \E j \in 1..Len(text[i]) : text[i][j] = w

Thrown(msg) == [kind |-> "error", error |-> msg, path |-> Word("", 0)]
Returned(w) == [kind |-> "path", error |-> "", path |-> w]

\* the for loop shared by the three platform functions: the first volume
\* whose descriptor text names both ids, else the throw after the loop
FirstMatching(volumes, mounts, vendorId, productId) ==
  LET hit(i) == LET info == ExecToString(DescriptorOutput(mounts, volumes[i]))
                IN /\ Includes(info, Word("Vendor ID:", vendorId))
                   /\ Includes(info, Word("Product ID:", productId))
      S == {i \in 1..Len(volumes) : hit(i)}
  IN IF S = {} THEN Thrown("Matching USB storage not found")
     ELSE Returned(volumes[CHOOSE i \in S : \A j \in S : i <= j])

\* _getMacUSBPath: line.split(' ').pop() of every line
GetMacUSBPath(mounts, vendorId, productId) ==
  LET text == ExecToString(MountTableOutput(mounts))
      volumes == [i \in 1..Len(text) |-> text[i][Len(text[i])]]
  IN FirstMatching(volumes, mounts, vendorId, productId)

\* _getWindowsUSBPath: only lines starting with a drive letter are kept
GetWindowsUSBPath(mounts, vendorId, productId) ==
  LET text == ExecToString(MountTableOutput(mounts))
      lines == SelectSeq(text, LAMBDA l : l[1].k = "/mnt/")
      volumes == [i \in 1..Len(lines) |-> lines[i][1]]
  IN FirstMatching(volumes, mounts, vendorId, productId)

\* _getLinuxUSBPath: line.split(' ')[2]; a line with fewer words gives
\* undefined, fs.realpathSync throws on it and the loop goes on
GetLinuxUSBPath(mounts, vendorId, productId) ==
  LET text == ExecToString(MountTableOutput(mounts))
      lines == SelectSeq(text, LAMBDA l : Len(l) >= 3)
      volumes == [i \in 1..Len(lines) |-> lines[i][3]]
  IN FirstMatching(volumes, mounts, vendorId, productId)

\* findDeviceById: looked up in usbLib.getDeviceList(), a TypeError when
\* this.usbLib is null
FindDeviceById(deviceId) ==
  {p \in attached : GenerateDeviceIdFromUSB(p) = deviceId}

\* outcome of the promise returned by getUSBStoragePath(deviceId)
GetUSBStoragePath(deviceId, mounts) ==
  IF ~usbLib THEN Thrown("TypeError: Cannot read properties of null")
  ELSE IF FindDeviceById(deviceId) = {} THEN Thrown("Device not found")
  ELSE LET device == CHOOSE p \in FindDeviceById(deviceId) : TRUE
           vendorId == VendorOf(device)
           productId == ProductOf(device)
           found == IF platform = "win32" THEN GetWindowsUSBPath(mounts, vendorId, productId)
                    ELSE IF platform = "darwin" THEN GetMacUSBPath(mounts, vendorId, productId)
                    ELSE GetLinuxUSBPath(mounts, vendorId, productId)
       IN IF found.kind = "error" THEN Thrown("Could not locate USB storage") ELSE found

\* ids a caller may pass: an id of each scheme for every device, or a live id
RequestedIds ==
  MapIds(devices) \cup {GenerateDeviceIdFromUSB(p) : p \in Phys} \cup {NativeId(p) : p \in Phys}

GetUSBStoragePathCall(deviceId, mounts) ==
  /\ phase = "ready"
  /\ result' = [deviceId |-> deviceId, live |-> MapHas(devices, deviceId), mounts |-> mounts,
                outcome |-> GetUSBStoragePath(deviceId, mounts)]
  /\ UNCHANGED <<envVars, libVars, monVars, attached, coreVars, inflight, enrich, now,
                 refreshLog>>

\* a constructed manager on any platform: the usb library loaded (with or
\* without the native detector) or missing
InitStorage ==
  /\ phase = "ready"
  /\ platform \in Platforms
  /\ usbInstalled \in BOOLEAN
  /\ detInstalled \in {FALSE, usbInstalled}
  /\ usbLib = usbInstalled
  /\ usbDetection = detInstalled
  /\ monitoringMethod = LoadUSBLibraries(detInstalled, usbInstalled)
  /\ Constructed

NextStorage ==
  \/ \E t \in BOOLEAN : StartMonitoring(t)
  \/ \E p \in Phys : Attach(p)
  \/ \E p \in Phys : Detach(p)
  \/ \E id \in BagToSet(removalTimers) : RemovalTimerFire(id)
  \/ \E ok \in BOOLEAN, F \in SUBSET Phys : RefreshDeviceList(ok, F)
  \/ \E r \in BagToSet(inflight) : RefreshResolve(r)
  \/ \E e \in BagToSet(enrich) : EnrichDone(e)
  \/ \E id \in RequestedIds, mounts \in MountTables : GetUSBStoragePathCall(id, mounts)

SpecStorage == InitStorage /\ [][NextStorage]_vars

\* the mounts whose descriptor names the vendor and product id of the
\* device stored under the id
MatchingMounts(deviceId, mounts) ==
  {i \in 1..Len(mounts) :
     \E p \in Phys : /\ deviceId \in {GenerateDeviceIdFromUSB(p), NativeId(p)}
                     /\ mounts[i].vendor = VendorOf(p)
                     /\ mounts[i].product = ProductOf(p)}

\* C23: getUSBStoragePath(deviceId) fails with the device-not-found error
\* whenever deviceId is not in the live registry, under every strategy, and
\* with the mount-resolution error whenever it is live but no mount matches;
\* it returns no path in either case.
C23_StoragePathErrors ==
  "outcome" \in DOMAIN result =>
    /\ ~result.live =>
         result.outcome.kind = "error" /\ result.outcome.error = "Device not found"
    /\ (result.live /\ MatchingMounts(result.deviceId, result.mounts) = {}) =>
         /\ result.outcome.kind = "error"
         /\ result.outcome.error = "Could not locate USB storage"

\* C24: for a live device, getUSBStoragePath returns the first mount, in the
\* output order of the mount-table command, whose descriptor output names
\* both the vendor id and the product id of the device.
C24_FirstMatchingMount ==
  ("outcome" \in DOMAIN result /\ result.live
     /\ MatchingMounts(result.deviceId, result.mounts) # {}) =>
    LET S == MatchingMounts(result.deviceId, result.mounts)
        first == CHOOSE i \in S : \A j \in S : i <= j
    IN /\ result.outcome.kind = "path"
       /\ result.outcome.path = Word("/mnt/", result.mounts[first].vol)

\* C25: the removal scheduled by a disconnect is cancelled when the same id
\* is inserted again before it fires: a removal timer that fires never finds
\* a record with status 'connected' under its id, so no connected record is
\* deleted by a timer.
C25_ReconnectCancelsRemoval ==
  [][\A id \in BagToSet(removalTimers) :
       RemovalTimerFire(id) => ~IsConnected(devices, id)]_vars

\* the history entries of one id, newest first
EntriesOf(id) == SelectSeq(connectionHistory, LAMBDA e : e.deviceId = id)

\* C26: per id the logged transitions alternate connect, disconnect,
\* connect, ... starting with a connect; a connect is logged only for an id
\* that is not in the live set and a disconnect only for an id whose live
\* record is 'connected'.
C26_Lifecycle ==
  /\ [](\A k \in 1..Len(connectionHistory) :
          LET es == EntriesOf(connectionHistory[k].deviceId)
          IN /\ es[Len(es)].eventType = "connect"
             /\ \A i \in 1..(Len(es) - 1) : es[i].eventType # es[i + 1].eventType)
  /\ [][Len(NewEntries) = 1 =>
          /\ NewEntries[1].eventType = "connect" =>
               ~MapHas(devices, NewEntries[1].deviceId)
          /\ NewEntries[1].eventType = "disconnect" =>
               IsConnected(devices, NewEntries[1].deviceId)]_vars

\* C27: every record in the live set has status 'connected' or
\* 'disconnected', and every record inserted by a connect transition was
\* inserted with status 'connected', also when pollUSBDevices could not read
\* the device's descriptors.
C27_StatusDomain ==
  /\ \A i \in 1..Len(devices) : devices[i].status \in {"connected", "disconnected"}
  /\ \A k \in 1..Len(connectionHistory) :
       connectionHistory[k].eventType = "connect" =>
         connectionHistory[k].device.status = "connected"

\* C28: the live set changes only through logged transitions: a step that
\* inserts a record for an id logs exactly one 'connect' entry and emits
\* exactly one deviceConnected event for it, and a record leaves the live set
\* only when a 'disconnect' entry for its id has been logged.
C28_OnlyTransitionsMutate ==
  [][/\ \A id \in MapIds(devices') \ MapIds(devices) :
          /\ Cardinality({i \in 1..Len(NewEntries) :
                            /\ NewEntries[i].eventType = "connect"
                            /\ NewEntries[i].deviceId = id}) = 1
          /\ Cardinality({i \in 1..Len(NewEvents) :
                            /\ NewEvents[i].type = "deviceConnected"
                            /\ NewEvents[i].device.id = id}) = 1
     /\ \A id \in MapIds(devices) \ MapIds(devices') :
          \E k \in 1..Len(connectionHistory') :
            /\ connectionHistory'[k].eventType = "disconnect"
            /\ connectionHistory'[k].deviceId = id]_vars

\* C29: for an id present both in the live set and in the snapshot a poll
\* cycle applies, the stored record is unchanged except that its lastSeen
\* becomes the time of the poll, and no history entry is produced for it.
C29_SeenRefreshed ==
  [][\A r \in BagToSet(inflight) :
       ObservedPollApply(r) =>
         \A id \in MapIds(devices) \cap
                   SeqIds(GetSystemUSBDevices(platform, r.ok, r.out, now)) :
           /\ MapHas(devices', id)
           /\ MapGet(devices', id) = [MapGet(devices, id) EXCEPT !.lastSeen = now]
           /\ \A i \in 1..Len(NewEntries) : NewEntries[i].deviceId # id]_vars

(***************************************************************************)
(* The polling loops with the event loop's scheduling: an armed interval   *)
(* timer fires, a started command calls back, a pending descriptor read    *)
(* completes.                                                              *)
(***************************************************************************)
NextLoop ==
  \/ \E t \in BOOLEAN : StartMonitoring(t)
  \/ \E t \in BOOLEAN : StopMonitoring(t)
  \/ \E p \in Phys : Attach(p)
  \/ \E p \in Phys : Detach(p)
  \/ \E id \in BagToSet(removalTimers) : RemovalTimerFire(id)
  \/ \E ok \in BOOLEAN : PollSystemStart(ok)
  \/ \E r \in BagToSet(inflight) : PollSystemApply(r)
  \/ \E lt \in BOOLEAN, F \in SUBSET Phys : PollUSBDevices(lt, F)
  \/ \E e \in BagToSet(enrich) : EnrichDone(e)

\* what a poll command's callback may report
PollResults == {[kind |-> "poll", ok |-> ok, out |-> S] : ok \in BOOLEAN, S \in SUBSET Phys}

\* a poll command reporting r has been started and its callback can run: the
\* condition under which the step PollSystemApply(r) is possible
PollCallbackDue(r) == appended < MaxHist /\ BagIn(r, inflight)

\* the event loop runs the interval callback when it is due (weak fairness)
\* and the exec callback of every started command (weak fairness, with the
\* enabling condition of the callback step written out)
LoopRuns ==
  /\ WF_vars(\E ok \in BOOLEAN : PollSystemStart(ok))
  /\ \A r \in PollResults :
       \/ []<>(~PollCallbackDue(r))
       \/ []<><<PollSystemApply(r)>>_vars

SpecLoop == InitReady /\ [][NextLoop]_vars /\ LoopRuns

\* a step of a poll cycle: the timer callback, the command's callback, the
\* completion of a descriptor read
PollStep ==
  \/ \E ok \in BOOLEAN : PollSystemStart(ok)
  \/ \E r \in BagToSet(inflight) : PollSystemApply(r)
  \/ \E lt \in BOOLEAN, F \in SUBSET Phys : PollUSBDevices(lt, F)
  \/ \E e \in BagToSet(enrich) : EnrichDone(e)

FailedPollPending == \E r \in BagToSet(inflight) : r.kind = "poll" /\ ~r.ok

NextUsbPoll ==
  \/ \E t \in BOOLEAN : StartMonitoring(t)
  \/ \E p \in Phys : Attach(p)
  \/ \E p \in Phys : Detach(p)
  \/ \E id \in BagToSet(removalTimers) : RemovalTimerFire(id)
  \/ \E lt \in BOOLEAN, F \in SUBSET Phys : PollUSBDevices(lt, F)
  \/ \E e \in BagToSet(enrich) : EnrichDone(e)

UsbIds == {GenerateDeviceIdFromUSB(p) : p \in Phys}

\* the interval callback runs and lists the devices, every removal timer
\* fires
UsbLoopRuns ==
  /\ WF_vars(\E F \in SUBSET Phys : PollUSBDevices(FALSE, F))
  /\ \A id \in UsbIds : WF_vars(RemovalTimerFire(id))

SpecUsbPoll == InitUsb /\ [][NextUsbPoll]_vars /\ UsbLoopRuns

\* C31: a device the substrate stops reporting is eventually removed from the
\* live set, whatever its stored status: while monitoring is active, a live
\* id that is not listed leads to the id being absent from getDevices()
\* (unless the device is listed again or the log is full).
C31_UnreportedRemoved ==
  \A p \in Phys :
    (isMonitoring /\ MapHas(devices, GenerateDeviceIdFromUSB(p)) /\ p \notin attached)
      ~> (~MapHas(devices, GenerateDeviceIdFromUSB(p)) \/ p \in attached
            \/ appended >= MaxHist)

\* the 'connect' entries logged for the device p since its last 'disconnect'
\* entry (the history is newest first)
RECURSIVE ConnectsSinceDisconnect(_, _)
ConnectsSinceDisconnect(es, i) ==
  IF i > Len(es) \/ es[i].eventType = "disconnect" THEN 0
  ELSE 1 + ConnectsSinceDisconnect(es, i + 1)

\* C32: under usb-polling a newly attached device yields exactly one connect,
\* also when its enrichment is still pending at the next poll cycle: no id
\* has two 'connect' entries without a 'disconnect' entry between them.
C32_OneConnectPerAttach ==
  \A p \in Phys :
    ConnectsSinceDisconnect(EntriesOf(GenerateDeviceIdFromUSB(p)), 1) <= 1

(***************************************************************************)
(* refreshDeviceList() called while the command-poll timer is running.     *)
(***************************************************************************)
NextRefreshPoll ==
  \/ \E t \in BOOLEAN : StartMonitoring(t)
  \/ \E p \in Phys : Attach(p)
  \/ \E p \in Phys : Detach(p)
  \/ \E id \in BagToSet(removalTimers) : RemovalTimerFire(id)
  \/ \E ok \in BOOLEAN : PollSystemStart(ok)
  \/ \E r \in BagToSet(inflight) : PollSystemApply(r)
  \/ \E ok \in BOOLEAN : RefreshDeviceList(ok, {})
  \/ \E r \in BagToSet(inflight) : RefreshResolve(r)

SpecRefreshPoll == InitOverlap /\ [][NextRefreshPoll]_vars

\* C33: a refresh made while monitoring produces no spurious transition: no
\* connect is logged for a device that is already connected, i.e. no id has
\* two 'connect' entries in a row, whenever the poll result arrives.
C33_RefreshNoSpuriousConnect ==
  \A k \in 1..Len(connectionHistory) :
    ConnectsSinceDisconnect(EntriesOf(connectionHistory[k].deviceId), 1) <= 1

(***************************************************************************)
(* Monitoring control, with the last of startMonitoring / stopMonitoring / *)
(* cleanup that returned kept for comparison with the state it left.       *)
(***************************************************************************)
LastCall(op) == [op |-> op]

ObservedStart(startThrows) ==
  /\ phase = "ready"
  /\ (~isMonitoring /\ monitoringMethod = "node-usb-detection")
        => nativeListeners < MaxStarts
  /\ startThrows => (~isMonitoring /\ monitoringMethod = "node-usb-detection")
  /\ StartMonitoringBody(startThrows)
  /\ result' = LastCall("startMonitoring")
  /\ UNCHANGED <<envVars, libVars, attached, coreVars, inflight, enrich, now, refreshLog>>

ObservedStop(stopThrows) ==
  /\ phase = "ready"
  /\ stopThrows => (isMonitoring /\ usbDetection /\ monitoringMethod = "node-usb-detection")
  /\ StopMonitoringBody(stopThrows)
  /\ result' = LastCall("stopMonitoring")
  /\ UNCHANGED <<envVars, libVars, attached, coreVars, inflight, enrich, now, refreshLog>>

ObservedCleanup(stopThrows) ==
  /\ phase = "ready"
  /\ stopThrows => (isMonitoring /\ usbDetection /\ monitoringMethod = "node-usb-detection")
  /\ StopMonitoringBody(stopThrows)
  /\ devices' = <<>>
  /\ result' = LastCall("cleanup")
  /\ UNCHANGED <<envVars, libVars, attached, connectionHistory, appended, events,
                 removalTimers, inflight, enrich, now, refreshLog>>

NextControl ==
  \/ \E t \in BOOLEAN : ObservedStart(t)
  \/ \E t \in BOOLEAN : ObservedStop(t)
  \/ \E t \in BOOLEAN : ObservedCleanup(t)
  \/ \E p \in Phys : Attach(p)
  \/ \E p \in Phys : Detach(p)
  \/ \E id \in BagToSet(removalTimers) : RemovalTimerFire(id)

SpecControl == InitReady /\ [][NextControl]_vars

\* stopMonitoring() or cleanup() was the last control call to return
Stopped == result \in {LastCall("stopMonitoring"), LastCall("cleanup")}

\* C34: after stopMonitoring() returns, isMonitoring is false and no polling
\* timer is active, whatever substrate was started and also when the native
\* detector's stopMonitoring() throws; and isMonitoring is true exactly when
\* a poll timer or the started native detector drives updates.
C34_StopAlwaysStops ==
  /\ Stopped => (~isMonitoring /\ intervals = EmptyBag /\ pollingInterval = "null")
  /\ isMonitoring <=> (intervals # EmptyBag \/ nativeActive)

\* C35: with the native detector started, one 'add' or 'remove' callback
\* logs one transition at most, and one 'add' exactly one connect, whatever
\* number of startMonitoring / stopMonitoring cycles came before.
C35_OneTransitionPerCallback ==
  [][(nativeActive /\ attached' # attached) =>
       /\ Len(NewEntries) <= 1
       /\ attached \subseteq attached' =>
            (Len(NewEntries) = 1 /\ NewEntries[1].eventType = "connect")]_vars

\* C36: at most one polling timer exists at any time, and it is the one
\* whose handle pollingInterval holds: startMonitoring while monitoring arms
\* no second timer and stopMonitoring followed by startMonitoring leaves one.
C36_AtMostOneTimer ==
  /\ BagCardinality(intervals) <= 1
  /\ intervals = IF pollingInterval = "null" THEN EmptyBag
                 ELSE SetToBag({pollingInterval})

\* monitoring restarted on the fallback poll timer after a stop: one timer
C36_Witness ==
  /\ result = LastCall("startMonitoring")
  /\ nativeListeners = 2
  /\ isMonitoring
  /\ BagCardinality(intervals) = 1

(***************************************************************************)
(* refreshDeviceList() with the live set it found at the call kept for     *)
(* comparison with the one it leaves when its promise settles.             *)
(***************************************************************************)
KeepingRefreshCall(ok, F) ==
  /\ RefreshCallBody(ok, F)
  /\ LET s == SettlesInCall(monitoringMethod, usbDetection, usbLib, platform, ok)
     IN refreshLog' = IF s = "pending" THEN <<>> ELSE Settled(ok, attached, s)
  /\ result' = [before |-> devices]

KeepingRefreshCallback(r) ==
  /\ RefreshResolveBody(r)
  /\ refreshLog' = Settled(r.ok, r.out, SettlesInCallback(r.kind, r.ok))
  /\ UNCHANGED result

NextKeep ==
  \/ \E p \in Phys : Attach(p)
  \/ \E p \in Phys : Detach(p)
  \/ \E ok \in BOOLEAN, F \in SUBSET Phys : KeepingRefreshCall(ok, F)
  \/ \E r \in BagToSet(inflight) : KeepingRefreshCallback(r)
  \/ \E e \in BagToSet(enrich) : EnrichDone(e)

SpecKeep == InitReady /\ [][NextKeep]_vars

\* C37: when the promise of refreshDeviceList() rejects, the live set is the
\* one the call found: a failed refresh neither empties nor partially
\* replaces the registry.
C37_FailedRefreshKeepsLiveSet ==
  [][(refreshLog' # refreshLog /\ Len(refreshLog') = 1
        /\ refreshLog'[1].settled = "rejected")
       => devices' = result'.before]_vars

\* C38: under system-polling a poll cycle whose command failed is applied as
\* an empty snapshot: it logs one disconnect for every record whose status
\* is 'connected', marks these records 'disconnected', and logs no connect,
\* whatever devices are attached.
C38_FailedPollDisconnectsAll ==
  [][\A r \in BagToSet(inflight) :
       (~r.ok /\ ObservedPollApply(r)) =>
         LET conn == ConnectedIds(devices)
         IN /\ Len(NewEntries) = Cardinality(conn)
            /\ {NewEntries[i].deviceId : i \in 1..Len(NewEntries)} = conn
            /\ \A i \in 1..Len(NewEntries) : NewEntries[i].eventType = "disconnect"
            /\ \A id \in conn : IsDisconnected(devices', id)
            /\ MapIds(devices') = MapIds(devices)]_vars

\* a failed cycle has been applied while a connected device was attached: its
\* record is 'disconnected' and the newest history entry is its disconnect
C38_Witness ==
  /\ "ids" \in DOMAIN result
  /\ ~result.ok
  /\ PollsInFlight = 0
  /\ attached # {}
  /\ connectionHistory # <<>>
  /\ connectionHistory[1].eventType = "disconnect"
  /\ IsDisconnected(devices, connectionHistory[1].deviceId)
  /\ ConnectedIds(devices) = {}

====
